---- MODULE Spec2Model ----
(***************************************************************************)
(* A model of package cfg (github.com/seh-msft/cfg): Load, the per-line    *)
(* tokenizer with its worker goroutine, the map builders and the           *)
(* stringification routines.  Strings are sequences of one-rune strings.   *)
(***************************************************************************)
EXTENDS Integers, Sequences, FiniteSets, TLC

\* Longest input text given to the first Load.
MaxLen == 6

\* Number of attributes to buffer.
commitSize == 100

SQ == "'"
DQ == "\""

\* The runes the input is drawn from.
Runes == {"a", " ", "=", SQ, DQ, "#", "\n"}

Inputs == UNION {[1..k -> Runes] : k \in 0..MaxLen}

\* unicode.IsSpace on the runes that occur (input runes and the tab Emit writes).
IsSpace(r) == r \in {" ", "\t", "\n"}

\* The predicates handed to strings.IndexFunc and the delimiter of ReadString.
Matches(r, f) ==
    CASE f = "IsSpace" -> IsSpace(r)
      [] f = "NotSpace" -> ~IsSpace(r)
      [] f = "IsHash" -> r = "#"
      [] f = "IsNewline" -> r = "\n"

\* strings.IndexFunc: 0-based index of the first rune satisfying f, or -1.
IndexFunc(s, f) ==
    IF \E i \in 1..Len(s) : Matches(s[i], f)
    THEN (CHOOSE i \in 1..Len(s) : Matches(s[i], f) /\ \A j \in 1..(i-1) : ~Matches(s[j], f)) - 1
    ELSE -1

\* The parser states.
name == "name"
value == "value"
equals == "equals"
squotebegin == "squotebegin"
dquotebegin == "dquotebegin"
squoteend == "squoteend"
dquoteend == "dquoteend"

Attribute(nm, vl) == [Name |-> nm, Value |-> vl]

Tuple(as) == [Attributes |-> as]

Record(ts) == [Tuples |-> ts]

EmptyMap == [x \in {} |-> x]

Cfg(rs, m) == [Records |-> rs, Map |-> m]

NoCfg == Cfg(<<>>, EmptyMap)

MapPut(m, k, x) == [y \in (DOMAIN m) \cup {k} |-> IF y = k THEN x ELSE m[y]]

----------------------------------------------------------------------------
(* Primary keys and the map builders *)

TuplePrimaryKey(t) == t.Attributes[1].Name

RecordPrimaryKey(r) == TuplePrimaryKey(r.Tuples[1])

RECURSIVE TupleBuildMapFrom(_, _, _)
TupleBuildMapFrom(as, i, out) ==
    IF i > Len(as) THEN out
    ELSE LET a == as[i]
             old == IF a.Name \in DOMAIN out THEN out[a.Name] ELSE <<>>
         IN IF a.Value # <<>>
            THEN TupleBuildMapFrom(as, i + 1, MapPut(out, a.Name, Append(old, a.Value)))
            ELSE TupleBuildMapFrom(as, i + 1, MapPut(out, a.Name, <<>>))

TupleBuildMap(t) == TupleBuildMapFrom(t.Attributes, 1, EmptyMap)

RECURSIVE RecordBuildMapFrom(_, _, _)
RecordBuildMapFrom(ts, i, out) ==
    IF i > Len(ts) THEN out
    ELSE RecordBuildMapFrom(ts, i + 1, MapPut(out, TuplePrimaryKey(ts[i]), TupleBuildMap(ts[i])))

RecordBuildMap(r) == RecordBuildMapFrom(r.Tuples, 1, EmptyMap)

RECURSIVE CfgBuildMapFrom(_, _, _)
CfgBuildMapFrom(rs, i, out) ==
    IF i > Len(rs) THEN out
    ELSE CfgBuildMapFrom(rs, i + 1, MapPut(out, RecordPrimaryKey(rs[i]), RecordBuildMap(rs[i])))

CfgBuildMap(cf) == CfgBuildMapFrom(cf.Records, 1, EmptyMap)

\* t.Attributes[0] of a tuple without attributes is an index out of range.
BuildMapPanics(cf) ==
    \E i \in 1..Len(cf.Records) :
        \/ cf.Records[i].Tuples = <<>>
        \/ \E j \in 1..Len(cf.Records[i].Tuples) : cf.Records[i].Tuples[j].Attributes = <<>>

----------------------------------------------------------------------------
(* The per-rune tokenizer.  A scanner value is [state, n, v, word]; a step  *)
(* yields the new scanner value, the attributes sent on commit, the number *)
(* of runes read and the error returned, if any.                           *)

Scanner(st, nn, vv, ww) == [state |-> st, n |-> nn, v |-> vv, word |-> ww]

Step(st, nn, vv, ww, out) ==
    [state |-> st, n |-> nn, v |-> vv, word |-> ww, out |-> out, used |-> 1, err |-> "none"]

Fail(s, e) ==
    [state |-> s.state, n |-> s.n, v |-> s.v, word |-> s.word, out |-> <<>>, used |-> 1, err |-> e]

\* The whitespace case with the Equals arm taking the buffered word as the value.
SpaceCaseKeepsWord(s, r) ==
    CASE s.state \in {squotebegin, dquotebegin} ->
            Step(s.state, s.n, s.v, Append(s.word, r), <<>>)
      [] s.state \in {squoteend, dquoteend, value, equals} ->
            Step(name, <<>>, <<>>, <<>>, <<Attribute(s.n, s.word)>>)
      [] s.state = name ->
            Step(name, <<>>, <<>>, <<>>, <<Attribute(s.word, s.v)>>)

\* case unicode.IsSpace(r)
SpaceCase(s, r) ==
    CASE s.state \in {squotebegin, dquotebegin} ->
            Step(s.state, s.n, s.v, Append(s.word, r), <<>>)
      [] s.state \in {squoteend, dquoteend, value} ->
            Step(name, <<>>, <<>>, <<>>, <<Attribute(s.n, s.word)>>)
      [] s.state = equals ->
            Step(name, <<>>, <<>>, <<>>, <<Attribute(s.n, s.v)>>)
      [] s.state = name ->
            Step(name, <<>>, <<>>, <<>>, <<Attribute(s.word, s.v)>>)

\* case r == '='
EqualsCase(s) ==
    CASE s.state \in {squotebegin, dquotebegin} ->
            Step(s.state, s.n, s.v, Append(s.word, "="), <<>>)
      [] s.state = name ->
            Step(equals, s.word, s.v, <<>>, <<>>)
      [] OTHER ->
            Step(equals, s.n, s.v, s.word, <<>>)

\* The single-quote case without the look-ahead for a doubled quote.
SingleQuoteCaseNoEscape(s, rest) ==
    IF rest = <<>> THEN Fail(s, "unclosed single quote (') at EOF")
    ELSE IF s.state = dquotebegin
         THEN Step(s.state, s.n, s.v, Append(s.word, SQ), <<>>)
         ELSE CASE s.state = squotebegin ->
                      IF s.n = <<>>
                      THEN Step(squoteend, s.word, s.v, <<>>, <<>>)
                      ELSE Step(squoteend, <<>>, <<>>, <<>>, <<Attribute(s.n, s.word)>>)
                [] s.state = name ->
                      IF Len(s.word) < 1
                      THEN Step(squotebegin, s.n, s.v, s.word, <<>>)
                      ELSE Step(squotebegin, <<>>, <<>>, <<>>, <<Attribute(s.word, s.v)>>)
                [] OTHER ->
                      Step(squotebegin, s.n, s.v, s.word, <<>>)

\* case r == '\'' ; rest is what the line reader still holds after r.
SingleQuoteCase(s, rest) ==
    IF rest = <<>> THEN Fail(s, "unclosed single quote (') at EOF")
    ELSE LET literal == Head(rest) = SQ IN
         IF literal \/ s.state = dquotebegin
         THEN [Step(s.state, s.n, s.v, Append(s.word, SQ), <<>>)
                  EXCEPT !.used = IF literal THEN 2 ELSE 1]
         ELSE CASE s.state = squotebegin ->
                      IF s.n = <<>>
                      THEN Step(squoteend, s.word, s.v, <<>>, <<>>)
                      ELSE Step(squoteend, <<>>, <<>>, <<>>, <<Attribute(s.n, s.word)>>)
                [] s.state = name ->
                      IF Len(s.word) < 1
                      THEN Step(squotebegin, s.n, s.v, s.word, <<>>)
                      ELSE Step(squotebegin, <<>>, <<>>, <<>>, <<Attribute(s.word, s.v)>>)
                [] OTHER ->
                      Step(squotebegin, s.n, s.v, s.word, <<>>)

\* The double-quote case without the arm for an open single quote.
DoubleQuoteCaseNoOther(s, rest) ==
    IF rest = <<>> THEN Fail(s, "unclosed double quote (\") at EOF")
    ELSE LET literal == Head(rest) = DQ IN
         IF literal
         THEN [Step(s.state, s.n, s.v, Append(s.word, DQ), <<>>) EXCEPT !.used = 2]
         ELSE CASE s.state = dquotebegin ->
                      IF s.n = <<>>
                      THEN Step(dquoteend, s.word, s.v, <<>>, <<>>)
                      ELSE Step(dquoteend, <<>>, <<>>, <<>>, <<Attribute(s.n, s.word)>>)
                [] s.state = name ->
                      IF Len(s.word) < 1
                      THEN Step(dquotebegin, s.n, s.v, s.word, <<>>)
                      ELSE Step(dquotebegin, <<>>, <<>>, <<>>, <<Attribute(s.word, s.v)>>)
                [] OTHER ->
                      Step(dquotebegin, s.n, s.v, s.word, <<>>)

\* case r == '"'
DoubleQuoteCase(s, rest) ==
    IF rest = <<>> THEN Fail(s, "unclosed double quote (\") at EOF")
    ELSE LET literal == Head(rest) = DQ IN
         IF literal \/ s.state = squotebegin
         THEN [Step(s.state, s.n, s.v, Append(s.word, DQ), <<>>)
                  EXCEPT !.used = IF literal THEN 2 ELSE 1]
         ELSE CASE s.state = dquotebegin ->
                      IF s.n = <<>>
                      THEN Step(dquoteend, s.word, s.v, <<>>, <<>>)
                      ELSE Step(dquoteend, <<>>, <<>>, <<>>, <<Attribute(s.n, s.word)>>)
                [] s.state = name ->
                      IF Len(s.word) < 1
                      THEN Step(dquotebegin, s.n, s.v, s.word, <<>>)
                      ELSE Step(dquotebegin, <<>>, <<>>, <<>>, <<Attribute(s.word, s.v)>>)
                [] OTHER ->
                      Step(dquotebegin, s.n, s.v, s.word, <<>>)

\* default: part of a name or value
DefaultCase(s, r) ==
    Step(IF s.state = equals THEN value ELSE s.state, s.n, s.v, Append(s.word, r), <<>>)

\* One iteration of the scan loop on rune r.
ScanStep(s, r, rest) ==
    CASE IsSpace(r) -> SpaceCase(s, r)
      [] r = "=" -> EqualsCase(s)
      [] r = SQ -> SingleQuoteCase(s, rest)
      [] r = DQ -> DoubleQuoteCase(s, rest)
      [] OTHER -> DefaultCase(s, r)

\* A worker that puts each attribute in front of the earlier ones.
WorkerInsertFront(attrs, a) ==
    IF a.Name = <<>> /\ a.Value = <<>> THEN attrs ELSE <<a>> \o attrs

\* The worker goroutine's handling of one received attribute.
WorkerInsert(attrs, a) ==
    IF a.Name = <<>> /\ a.Value = <<>> THEN attrs ELSE Append(attrs, a)

----------------------------------------------------------------------------
(* Line reading and classification *)

\* br.ReadString('\n'): the text up to and including the first newline.
HasLine(text) == IndexFunc(text, "IsNewline") >= 0

ReadString(text) == SubSeq(text, 1, IndexFunc(text, "IsNewline") + 1)

AfterLine(text) == SubSeq(text, IndexFunc(text, "IsNewline") + 2, Len(text))

\* The line left as read, comments and all.
TrimCommentNone(l) == l

\* Trim comments
TrimComment(l) ==
    LET ci == IndexFunc(l, "IsHash") IN IF ci >= 0 THEN SubSeq(l, 1, ci) ELSE l

\* The classification with the two non-empty branches exchanged.
ClassifySwapped(l) ==
    LET wi == IndexFunc(l, "IsSpace")
        li == IndexFunc(l, "NotSpace")
    IN IF (wi < 0 \/ wi > li) /\ li >= 0 THEN "tuple"
       ELSE IF wi < li THEN "record"
       ELSE "empty"

\* The classification with <= for < in the leading-whitespace test.
ClassifyLoose(l) ==
    LET wi == IndexFunc(l, "IsSpace")
        li == IndexFunc(l, "NotSpace")
    IN IF wi <= li THEN "tuple"
       ELSE IF (wi < 0 \/ wi > li) /\ li >= 0 THEN "record"
       ELSE "empty"

\* "tuple", "record" or "empty", from the whitespace and first-letter indexes.
Classify(l) ==
    LET wi == IndexFunc(l, "IsSpace")
        li == IndexFunc(l, "NotSpace")
    IN IF wi < li THEN "tuple"
       ELSE IF (wi < 0 \/ wi > li) /\ li >= 0 THEN "record"
       ELSE "empty"

\* pos := fmt.Sprintf("near line:rune of %d:%d", ln, rn)
Pos(l, r) == [ln |-> l, rn |-> r]

NoPos == [ln |-> 0, rn |-> 0]

\* The state check and the append that follow the scan of a line.
UnterminatedError(st) ==
    CASE st = squotebegin -> "unterminated single quote (')"
      [] st = dquotebegin -> "unterminated double quote (\")"
      [] OTHER -> "none"

NoParent == "no parent record for indented tuple"

AppendTuple(cf, indented, t) ==
    IF indented
    THEN LET last == Len(cf.Records) IN
         Cfg([cf.Records EXCEPT ![last] = Record(Append(cf.Records[last].Tuples, t))], cf.Map)
    ELSE Cfg(Append(cf.Records, Record(<<t>>)), cf.Map)

\* Return as the claimed policy would have it: the partial Cfg is dropped on error.
ReturnDiscarding(cf, e, p) ==
    [c |-> IF e = "none" THEN cf ELSE NoCfg, err |-> e, pos |-> p]

\* What Load hands back: return c, err.
Return(cf, e, p) == [c |-> cf, err |-> e, pos |-> p]

----------------------------------------------------------------------------
(* Stringification routines *)

\* len(strings.Fields(s))
FieldCount(s) ==
    Cardinality({i \in 1..Len(s) : ~IsSpace(s[i]) /\ (i = 1 \/ IsSpace(s[i-1]))})

\* strings.ReplaceAll(s, q, qq) for a one-rune q
RECURSIVE DoubleQuotes(_, _)
DoubleQuotes(s, q) ==
    IF s = <<>> THEN <<>>
    ELSE (IF Head(s) = q THEN <<q, q>> ELSE <<Head(s)>>) \o DoubleQuotes(Tail(s), q)

Double == "Double"
Single == "Single"

\* The quote rune selected by the Quoting variable.
QuoteRune(q) == IF q = Single THEN SQ ELSE DQ

\* The rendering of a field with the quote characters inside left single.
FieldStringNoDoubling(s, q) ==
    IF FieldCount(s) > 1
    THEN <<QuoteRune(q)>> \o s \o <<QuoteRune(q)>>
    ELSE s

FieldString(s, q) ==
    IF FieldCount(s) > 1
    THEN <<QuoteRune(q)>> \o DoubleQuotes(s, QuoteRune(q)) \o <<QuoteRune(q)>>
    ELSE s

AttributeString(a, q) == FieldString(a.Name, q) \o <<"=">> \o FieldString(a.Value, q)

RECURSIVE TupleStringFrom(_, _, _)
TupleStringFrom(as, i, q) ==
    IF i > Len(as) THEN <<>>
    ELSE AttributeString(as[i], q) \o <<" ">> \o TupleStringFrom(as, i + 1, q)

TupleString(t, q) == TupleStringFrom(t.Attributes, 1, q)

RECURSIVE RestTuplesString(_, _, _)
RestTuplesString(ts, i, q) ==
    IF i > Len(ts) THEN <<>>
    ELSE <<"\t">> \o TupleString(ts[i], q) \o <<"\n">> \o RestTuplesString(ts, i + 1, q)

RecordString(r, q) ==
    TupleString(r.Tuples[1], q) \o <<"\n">> \o RestTuplesString(r.Tuples, 2, q)

RECURSIVE CfgStringFrom(_, _, _)
CfgStringFrom(rs, i, q) ==
    IF i > Len(rs) THEN <<>>
    ELSE RecordString(rs[i], q) \o CfgStringFrom(rs, i + 1, q)

CfgString(cf, q) == CfgStringFrom(cf.Records, 1, q)

----------------------------------------------------------------------------
(* Lookup and FlatMap *)

RECURSIVE TupleLookupFrom(_, _, _, _)
TupleLookupFrom(as, i, nm, out) ==
    IF i > Len(as) THEN out
    ELSE TupleLookupFrom(as, i + 1, nm, IF as[i].Name = nm THEN Append(out, as[i]) ELSE out)

\* func (t *Tuple) Lookup: the matches and the 'ok' value.
TupleLookup(t, nm) ==
    LET out == TupleLookupFrom(t.Attributes, 1, nm, <<>>) IN [out |-> out, ok |-> Len(out) > 0]

RECURSIVE RecordLookupFrom(_, _, _, _)
RecordLookupFrom(ts, i, nm, out) ==
    IF i > Len(ts) THEN out
    ELSE RecordLookupFrom(ts, i + 1, nm,
                          IF TuplePrimaryKey(ts[i]) = nm THEN Append(out, ts[i]) ELSE out)

\* func (r *Record) Lookup
RecordLookup(r, nm) ==
    LET out == RecordLookupFrom(r.Tuples, 1, nm, <<>>) IN [out |-> out, ok |-> Len(out) > 0]

RECURSIVE CfgLookupFrom(_, _, _, _)
CfgLookupFrom(rs, i, nm, out) ==
    IF i > Len(rs) THEN out
    ELSE CfgLookupFrom(rs, i + 1, nm,
                       IF RecordPrimaryKey(rs[i]) = nm THEN Append(out, rs[i]) ELSE out)

\* Cfg.Lookup stopping at the first match.
CfgLookupFirstOnly(cf, nm) ==
    LET all == CfgLookupFrom(cf.Records, 1, nm, <<>>)
        out == IF all = <<>> THEN <<>> ELSE <<all[1]>>
    IN [out |-> out, ok |-> Len(out) > 0]

\* func (c *Cfg) Lookup
CfgLookup(cf, nm) ==
    LET out == CfgLookupFrom(cf.Records, 1, nm, <<>>) IN [out |-> out, ok |-> Len(out) > 0]

\* The body of Record.FlatMap's inner loop over one tuple's map m: names
\* already in out are skipped, the others get the first value or "".
FlatMapMerge(out, m) ==
    [x \in (DOMAIN out) \cup (DOMAIN m) |->
        IF x \in DOMAIN out THEN out[x]
        ELSE IF Len(m[x]) > 0 THEN m[x][1] ELSE <<>>]

RECURSIVE RecordFlatMapFrom(_, _, _)
RecordFlatMapFrom(ts, i, out) ==
    IF i > Len(ts) THEN out
    ELSE RecordFlatMapFrom(ts, i + 1, FlatMapMerge(out, TupleBuildMap(ts[i])))

\* func (r Record) FlatMap
RecordFlatMap(r) == RecordFlatMapFrom(r.Tuples, 1, EmptyMap)

\* Cfg.FlatMap takes v[0] without looking at len(v): a name that is not yet in
\* out and has an empty list is an index out of range.
FlatMapIndexPanics(out, m) == \E x \in (DOMAIN m) \ (DOMAIN out) : Len(m[x]) = 0

\* All tuples of a Cfg, record after record.
RECURSIVE AllTuplesFrom(_, _)
AllTuplesFrom(rs, i) ==
    IF i > Len(rs) THEN <<>> ELSE rs[i].Tuples \o AllTuplesFrom(rs, i + 1)

RECURSIVE CfgFlatMapFrom(_, _, _)
CfgFlatMapFrom(ts, i, out) ==
    IF i > Len(ts) THEN [panic |-> FALSE, out |-> out]
    ELSE IF FlatMapIndexPanics(out, TupleBuildMap(ts[i])) THEN [panic |-> TRUE, out |-> out]
    ELSE CfgFlatMapFrom(ts, i + 1, FlatMapMerge(out, TupleBuildMap(ts[i])))

\* func (c Cfg) FlatMap
CfgFlatMap(cf) == CfgFlatMapFrom(AllTuplesFrom(cf.Records, 1), 1, EmptyMap)

\* func (c *Cfg) Keys
RECURSIVE CfgKeysFrom(_, _)
CfgKeysFrom(rs, i) ==
    IF i > Len(rs) THEN <<>> ELSE <<RecordPrimaryKey(rs[i])>> \o CfgKeysFrom(rs, i + 1)

CfgKeys(cf) == CfgKeysFrom(cf.Records, 1)

\* The names a caller may ask for: every name in the Cfg and one that is absent.
Absent == <<"z">>

Range(s) == {s[i] : i \in 1..Len(s)}

TuplesOf(cf) == UNION {Range(r.Tuples) : r \in Range(cf.Records)}

AttributesOf(cf) == UNION {Range(t.Attributes) : t \in TuplesOf(cf)}

NamesOf(cf) == {a.Name : a \in AttributesOf(cf)} \cup {Absent}

----------------------------------------------------------------------------
(* Load as a state machine *)

VARIABLES
    input,      \* what the reader r still holds
    c,          \* the Cfg being built
    ln, rn,     \* line and rune counters
    line,       \* the current line, comment trimmed
    lr,         \* what the line reader still holds
    indented,   \* the flag "in": the line is a tuple of the last record
    state, n, v, word,  \* the tokenizer
    commit,     \* the buffered channel of attributes
    closed,     \* close(commit) happened
    worker,     \* the goroutine: "none", "running", "sending" (on done), "exited"
    tuple,      \* the worker's tuple.Attributes
    pc,         \* "read", "scan", "wait", "returned", "panic"
    ret,        \* the values Load returned
    Quoting,    \* the output quoting mode
    phase,      \* 1: Load of the input; 2: Load of the emission of the first result
    loaded,     \* the Cfg the first Load returned
    text,       \* the whole text given to the current Load
    sent,       \* history: every attribute sent on commit for the current line
    before,     \* history: c when the current line was read
    result      \* the last call a caller made on the loaded Cfg, and what it returned

vars == <<input, c, ln, rn, lr, indented, state, n, v, word, commit, closed, worker,
          tuple, pc, ret, Quoting, phase, loaded, text, sent, before, line, result>>

tokenizer == <<state, n, v, word>>
reload == <<Quoting, phase, loaded, text, result>>

\* Everything Load and the tests' reload work on.
load == <<input, c, ln, rn, lr, line, indented, state, n, v, word, commit, closed, worker,
          tuple, pc, ret, Quoting, phase, loaded, text, sent, before>>

NoResult == [op |-> "none", i |-> 0, j |-> 0, arg |-> <<>>, val |-> <<>>]

\* Load is called on one of the given texts.
Start(texts) ==
    /\ input \in texts
    /\ c = NoCfg
    /\ ln = 1
    /\ rn = 0
    /\ line = <<>>
    /\ lr = <<>>
    /\ indented = FALSE
    /\ state = name
    /\ n = <<>>
    /\ v = <<>>
    /\ word = <<>>
    /\ commit = <<>>
    /\ closed = FALSE
    /\ worker = "none"
    /\ tuple = <<>>
    /\ pc = "read"
    /\ ret = Return(NoCfg, "none", NoPos)
    /\ Quoting = Double
    /\ phase = 1
    /\ loaded = NoCfg
    /\ text = input
    /\ sent = <<>>
    /\ before = NoCfg
    /\ result = NoResult

Init == Start(Inputs)

\* ReadString hits io.EOF: break lines, c.BuildMap(), return c, nil.
LoadEOF ==
    /\ pc = "read"
    /\ ~HasLine(input)
    /\ IF BuildMapPanics(c)
       THEN /\ pc' = "panic"
            /\ UNCHANGED <<c, ret>>
       ELSE /\ c' = Cfg(c.Records, CfgBuildMap(c))
            /\ ret' = Return(c', "none", NoPos)
            /\ pc' = "returned"
    /\ UNCHANGED <<input, ln, rn, lr, indented, tokenizer, commit, closed, worker, tuple,
                   reload, sent, before, line>>

\* An empty line: continue lines.
SkipLine ==
    /\ pc = "read"
    /\ HasLine(input)
    /\ Classify(TrimComment(ReadString(input))) = "empty"
    /\ input' = AfterLine(input)
    /\ ln' = ln + 1
    /\ UNCHANGED <<c, rn, lr, indented, tokenizer, commit, closed, worker, tuple, pc, ret,
                   reload, sent, before, line>>

\* A line with content: make the channels, start the worker, start the scan.
StartLine ==
    /\ pc = "read"
    /\ HasLine(input)
    /\ line' = TrimComment(ReadString(input))
    /\ Classify(line') # "empty"
    /\ indented' = (Classify(line') = "tuple")
    /\ lr' = line'
    /\ input' = AfterLine(input)
    /\ commit' = <<>>
    /\ closed' = FALSE
    /\ worker' = "running"
    /\ tuple' = <<>>
    /\ state' = name
    /\ n' = <<>>
    /\ v' = <<>>
    /\ word' = <<>>
    /\ rn' = 1
    /\ sent' = <<>>
    /\ before' = c
    /\ pc' = "scan"
    /\ UNCHANGED <<c, ln, ret, reload>>

\* One iteration of the scan loop that does not return.
ScanRune ==
    /\ pc = "scan"
    /\ lr # <<>>
    /\ LET s == ScanStep(Scanner(state, n, v, word), Head(lr), Tail(lr)) IN
       /\ s.err = "none"
       /\ Len(commit) + Len(s.out) <= commitSize
       /\ commit' = commit \o s.out
       /\ sent' = sent \o s.out
       /\ state' = s.state
       /\ n' = s.n
       /\ v' = s.v
       /\ word' = s.word
       /\ lr' = SubSeq(lr, s.used + 1, Len(lr))
       /\ rn' = rn + s.used
    /\ UNCHANGED <<input, c, ln, indented, closed, worker, tuple, pc, ret, reload, before, line>>

\* An iteration of the scan loop that returns an error.
ScanFail ==
    /\ pc = "scan"
    /\ lr # <<>>
    /\ LET s == ScanStep(Scanner(state, n, v, word), Head(lr), Tail(lr)) IN
       /\ s.err # "none"
       /\ ret' = Return(c, s.err, NoPos)
    /\ lr' = Tail(lr)
    /\ pc' = "returned"
    /\ UNCHANGED <<input, c, ln, rn, indented, tokenizer, commit, closed, worker, tuple,
                   reload, sent, before, line>>

\* The scan loop ends: close(commit).
EndScan ==
    /\ pc = "scan"
    /\ lr = <<>>
    /\ closed' = TRUE
    /\ pc' = "wait"
    /\ UNCHANGED <<input, c, ln, rn, lr, indented, tokenizer, commit, worker, tuple, ret,
                   reload, sent, before, line>>

\* The worker receives one attribute.
WorkerReceive ==
    /\ worker = "running"
    /\ commit # <<>>
    /\ tuple' = WorkerInsert(tuple, Head(commit))
    /\ commit' = Tail(commit)
    /\ UNCHANGED <<input, c, ln, rn, lr, indented, tokenizer, closed, worker, pc, ret,
                   reload, sent, before, line>>

\* The worker finds commit closed and drained, and goes to send on done.
WorkerBreak ==
    /\ worker = "running"
    /\ commit = <<>>
    /\ closed
    /\ worker' = "sending"
    /\ UNCHANGED <<input, c, ln, rn, lr, indented, tokenizer, commit, closed, tuple, pc, ret,
                   reload, sent, before, line>>

\* tuple := <-done, then a quote is still open: return the error.
FinishUnterminated ==
    /\ pc = "wait"
    /\ worker = "sending"
    /\ worker' = "exited"
    /\ UnterminatedError(state) # "none"
    /\ ret' = Return(c, UnterminatedError(state), Pos(ln, rn))
    /\ pc' = "returned"
    /\ UNCHANGED <<input, c, ln, rn, lr, indented, tokenizer, commit, closed, tuple,
                   reload, sent, before, line>>

\* tuple := <-done, the tuple is indented and there is no record: return the error.
FinishNoParent ==
    /\ pc = "wait"
    /\ worker = "sending"
    /\ worker' = "exited"
    /\ UnterminatedError(state) = "none"
    /\ indented
    /\ Len(c.Records) - 1 < 0
    /\ ret' = Return(c, NoParent, Pos(ln, rn))
    /\ pc' = "returned"
    /\ UNCHANGED <<input, c, ln, rn, lr, indented, tokenizer, commit, closed, tuple,
                   reload, sent, before, line>>

\* tuple := <-done, and the tuple goes into the last record or into a new one.
FinishTuple ==
    /\ pc = "wait"
    /\ worker = "sending"
    /\ worker' = "exited"
    /\ UnterminatedError(state) = "none"
    /\ ~(indented /\ Len(c.Records) - 1 < 0)
    /\ c' = AppendTuple(c, indented, Tuple(tuple))
    /\ ln' = ln + 1
    /\ pc' = "read"
    /\ UNCHANGED <<input, rn, lr, indented, tokenizer, commit, closed, tuple, ret,
                   reload, sent, before, line>>

\* The tests' second half: emit the loaded Cfg in a quoting mode and load the text.
Reload ==
    /\ pc = "returned"
    /\ phase = 1
    /\ ret.err = "none"
    /\ \E q \in {Double, Single} :
          /\ Quoting' = q
          /\ text' = CfgString(ret.c, q)
          /\ input' = CfgString(ret.c, q)
    /\ loaded' = ret.c
    /\ phase' = 2
    /\ c' = NoCfg
    /\ ln' = 1
    /\ pc' = "read"
    /\ ret' = Return(NoCfg, "none", NoPos)
    /\ result' = NoResult
    /\ UNCHANGED <<rn, lr, indented, tokenizer, commit, closed, worker, tuple, sent, before, line>>

Returned == pc = "returned"

Succeeded == Returned /\ ret.err = "none"

Failed == Returned /\ ret.err # "none"

\* A caller of the loaded Cfg: c.Lookup(nm).
CallCfgLookup ==
    /\ Succeeded
    /\ \E nm \in NamesOf(ret.c) :
          result' = [op |-> "Cfg.Lookup", i |-> 0, j |-> 0, arg |-> nm,
                     val |-> CfgLookup(ret.c, nm)]
    /\ UNCHANGED load

\* c.Records[i].Lookup(nm)
CallRecordLookup ==
    /\ Succeeded
    /\ \E i \in 1..Len(ret.c.Records), nm \in NamesOf(ret.c) :
          result' = [op |-> "Record.Lookup", i |-> i, j |-> 0, arg |-> nm,
                     val |-> RecordLookup(ret.c.Records[i], nm)]
    /\ UNCHANGED load

\* c.Records[i].Tuples[j].Lookup(nm)
CallTupleLookup ==
    /\ Succeeded
    /\ \E i \in 1..Len(ret.c.Records), nm \in NamesOf(ret.c) :
          \E j \in 1..Len(ret.c.Records[i].Tuples) :
              result' = [op |-> "Tuple.Lookup", i |-> i, j |-> j, arg |-> nm,
                         val |-> TupleLookup(ret.c.Records[i].Tuples[j], nm)]
    /\ UNCHANGED load

\* c.Records[i].Tuples[j].BuildMap()
CallTupleBuildMap ==
    /\ Succeeded
    /\ \E i \in 1..Len(ret.c.Records) : \E j \in 1..Len(ret.c.Records[i].Tuples) :
          result' = [op |-> "Tuple.BuildMap", i |-> i, j |-> j, arg |-> <<>>,
                     val |-> TupleBuildMap(ret.c.Records[i].Tuples[j])]
    /\ UNCHANGED load

\* c.Records[i].FlatMap()
CallRecordFlatMap ==
    /\ Succeeded
    /\ \E i \in 1..Len(ret.c.Records) :
          result' = [op |-> "Record.FlatMap", i |-> i, j |-> 0, arg |-> <<>>,
                     val |-> RecordFlatMap(ret.c.Records[i])]
    /\ UNCHANGED load

\* c.FlatMap()
CallCfgFlatMap ==
    /\ Succeeded
    /\ result' = [op |-> "Cfg.FlatMap", i |-> 0, j |-> 0, arg |-> <<>>,
                  val |-> CfgFlatMap(ret.c)]
    /\ UNCHANGED load

Next ==
    \/ LoadEOF
    \/ SkipLine
    \/ StartLine
    \/ ScanRune
    \/ ScanFail
    \/ EndScan
    \/ WorkerReceive
    \/ WorkerBreak
    \/ FinishUnterminated
    \/ FinishNoParent
    \/ FinishTuple
    \/ Reload
    \/ CallCfgLookup
    \/ CallRecordLookup
    \/ CallTupleLookup
    \/ CallTupleBuildMap
    \/ CallRecordFlatMap
    \/ CallCfgFlatMap

Spec == Init /\ [][Next]_vars

----------------------------------------------------------------------------
(* Properties *)

\* C1: round trip.  Whenever the first Load succeeds, the Load of its emission,
\* in either quoting mode, returns without error a Cfg with the same Records,
\* and the second emission equals the first.
C1_RoundTrip ==
    (phase = 2 /\ pc \in {"returned", "panic"}) =>
        /\ Succeeded
        /\ ret.c.Records = loaded.Records
        /\ CfgString(ret.c, Quoting) = text

\* C2: indentation grouping.  When a line has been tokenized without a quote
\* error, a line whose first rune is not whitespace opens one new Record holding
\* its Tuple, and a line with leading whitespace is appended as a Tuple to the
\* last Record (or is refused when there is none); nothing else changes in c.
C2_Grouping ==
    [][(pc = "wait" /\ pc' # "wait" /\ UnterminatedError(state) = "none") =>
          IF ~IsSpace(line[1])
          THEN /\ pc' = "read"
               /\ c'.Records = Append(c.Records, Record(<<Tuple(tuple)>>))
          ELSE \/ c.Records = <<>> /\ Failed' /\ ret'.err = NoParent
               \/ /\ c.Records # <<>>
                  /\ pc' = "read"
                  /\ Len(c'.Records) = Len(c.Records)
                  /\ \A i \in 1..(Len(c.Records) - 1) : c'.Records[i] = c.Records[i]
                  /\ c'.Records[Len(c.Records)].Tuples =
                        Append(c.Records[Len(c.Records)].Tuples, Tuple(tuple))]_vars

\* C3: every Tuple in the Cfg has at least one Attribute, and the BuildMap
\* call that ends Load never indexes an empty attribute list.
C3_TupleNonEmpty ==
    /\ pc # "panic"
    /\ \A i \in 1..Len(c.Records) : \A j \in 1..Len(c.Records[i].Tuples) :
          Len(c.Records[i].Tuples[j].Attributes) >= 1

SingleErrors == {"unclosed single quote (') at EOF", "unterminated single quote (')"}

DoubleErrors == {"unclosed double quote (\") at EOF", "unterminated double quote (\")"}

\* C4: when the line reader is exhausted while the tokenizer is in the
\* single-quote-open (double-quote-open) state, Load returns a quote error of
\* kind single (double).
C4_QuoteKind ==
    (Returned /\ worker # "none" /\ lr = <<>>) =>
        /\ state = squotebegin => ret.err \in SingleErrors
        /\ state = dquotebegin => ret.err \in DoubleErrors

\* The first line of a text that is not blank once its comment is removed
\* (the empty string when there is none).
RECURSIVE FirstContentLine(_)
FirstContentLine(t) ==
    IF t = <<>> THEN <<>>
    ELSE LET l == TrimComment(IF HasLine(t) THEN ReadString(t) ELSE t) IN
         IF \E i \in 1..Len(l) : ~IsSpace(l[i]) THEN l
         ELSE IF HasLine(t) THEN FirstContentLine(AfterLine(t)) ELSE <<>>

\* C5: when the first non-blank, non-comment line of the text has leading
\* whitespace, Load returns the no-parent error and a Cfg without Records.
C5_Orphan ==
    (phase = 1 /\ pc \in {"returned", "panic"}
        /\ FirstContentLine(text) # <<>> /\ IsSpace(FirstContentLine(text)[1])) =>
        /\ Failed
        /\ ret.err = NoParent
        /\ ret.c.Records = <<>>

\* C6 as claimed: the Cfg returned with an error holds no Records.
C6_Discarded == Failed => ret.c.Records = <<>>

\* C6: the Cfg returned with an error is the partial Cfg, exactly as it stood
\* when the failing line was read: the Records of the earlier lines are kept,
\* nothing of the failing line is in it, and its Map is not built.
C6_PartialReturned == Failed => ret.c = before /\ ret.c.Map = EmptyMap

C6_Witness ==
    /\ Failed
    /\ Len(ret.c.Records) >= 1
    /\ Len(ret.c.Records[1].Tuples[1].Attributes) >= 1
    /\ ret.c = before

NonEmptyAttribute(a) == ~(a.Name = <<>> /\ a.Value = <<>>)

\* C7: once the worker has drained the channel, its tuple holds exactly the
\* non-empty attributes the scanner sent on commit, in the order of sending;
\* before that, the tuple followed by the buffered attributes is that list.
C7_CommitOrder ==
    /\ worker \in {"sending", "exited"} => tuple = SelectSeq(sent, NonEmptyAttribute)
    /\ (worker = "running" /\ pc \in {"scan", "wait"}) =>
          tuple \o SelectSeq(commit, NonEmptyAttribute) = SelectSeq(sent, NonEmptyAttribute)

C7_Witness ==
    /\ pc = "read"
    /\ worker = "exited"
    /\ Len(tuple) >= 2
    /\ tuple[1] # tuple[2]
    /\ Len(sent) > Len(tuple)
    /\ c.Records[Len(c.Records)].Tuples[Len(c.Records[Len(c.Records)].Tuples)] = Tuple(tuple)

\* C8: while a quote is open, a doubled quote of the same kind appends one
\* literal quote to the word and leaves the quote open (nothing is committed),
\* a quote of that kind followed by another rune closes it, handing the word
\* over as the name or as the value, and nothing else ends the open state.
C8_QuoteEscape ==
    [][(pc = "scan" /\ lr' # lr /\ state \in {squotebegin, dquotebegin}) =>
          LET q == IF state = squotebegin THEN SQ ELSE DQ
              end == IF state = squotebegin THEN squoteend ELSE dquoteend
              doubled == Len(lr) >= 2 /\ lr[1] = q /\ lr[2] = q
              closing == Len(lr) >= 2 /\ lr[1] = q /\ lr[2] # q
          IN /\ doubled => /\ state' = state
                           /\ word' = Append(word, q)
                           /\ lr' = SubSeq(lr, 3, Len(lr))
                           /\ n' = n
                           /\ sent' = sent
             /\ closing => /\ state' = end
                           /\ word' = <<>>
                           /\ lr' = Tail(lr)
                           /\ IF n = <<>>
                              THEN n' = word /\ sent' = sent
                              ELSE n' = <<>> /\ sent' = Append(sent, Attribute(n, word))
             /\ state' # state => closing]_vars

\* The text  'a'''  yields the one name  a'  .
C8_Witness ==
    /\ phase = 1
    /\ Succeeded
    /\ text = <<SQ, "a", SQ, SQ, SQ, "\n">>
    /\ ret.c.Records = <<Record(<<Tuple(<<Attribute(<<"a", SQ>>, <<>>)>>)>>)>>

\* C9 as claimed: in the line  w w=  the Attribute of the bare name differs
\* from the Attribute of the name with an empty value.
C9_Distinguishable ==
    \A w \in {<<"a">>, <<"a", "a">>} :
        (worker = "exited" /\ line = w \o <<" ">> \o w \o <<"=", "\n">>) =>
            /\ Len(tuple) = 2
            /\ tuple[1] # tuple[2]

\* C9: whitespace after a bare name (state Name) and whitespace after name=
\* (state Equals) commit the same Attribute: that name with the empty string
\* as Value.  Attribute.Value does not record whether a value was present.
C9_SameAttribute ==
    [][(pc = "scan" /\ lr' # lr /\ IsSpace(Head(lr)) /\ state \in {name, equals}) =>
          sent' = Append(sent, Attribute(IF state = name THEN word ELSE n, <<>>))]_vars

C9_Witness ==
    /\ worker = "exited"
    /\ line = <<"a", " ", "a", "=", "\n">>
    /\ tuple = <<Attribute(<<"a">>, <<>>), Attribute(<<"a">>, <<>>)>>

\* C10: every Attribute of a Cfg that Load returns without error has a
\* non-empty name.
C10_NameNonEmpty ==
    Succeeded =>
        \A i \in 1..Len(ret.c.Records) : \A j \in 1..Len(ret.c.Records[i].Tuples) :
            \A k \in 1..Len(ret.c.Records[i].Tuples[j].Attributes) :
                ret.c.Records[i].Tuples[j].Attributes[k].Name # <<>>

\* C11: every Record has at least one Tuple at all times, a Record is only ever
\* opened by a line whose first rune is not whitespace, with that line's Tuple
\* as its first Tuple, and the first Tuple of a Record never changes afterwards.
C11_FirstTuple ==
    /\ [](\A i \in 1..Len(c.Records) : Len(c.Records[i].Tuples) >= 1)
    /\ [][phase' = phase =>
            /\ Len(c'.Records) >= Len(c.Records)
            /\ \A i \in 1..Len(c.Records) : c'.Records[i].Tuples[1] = c.Records[i].Tuples[1]
            /\ Len(c'.Records) > Len(c.Records) =>
                  /\ Len(c'.Records) = Len(c.Records) + 1
                  /\ line # <<>>
                  /\ ~IsSpace(line[1])
                  /\ c'.Records[Len(c'.Records)] = Record(<<Tuple(tuple)>>)]_vars

\* An indented line has been appended to the Record that an unindented line opened.
C11_Witness ==
    /\ pc = "read"
    /\ worker = "exited"
    /\ IsSpace(line[1])
    /\ Len(c.Records) = 1
    /\ Len(c.Records[1].Tuples) = 2
    /\ Len(c.Records[1].Tuples[1].Attributes) >= 1
    /\ Len(tuple) >= 1
    /\ c.Records[1].Tuples[2] = Tuple(tuple)

Blank(l) == \A i \in 1..Len(l) : IsSpace(l[i])

\* C12: reading a line that is blank once its comment is removed changes
\* nothing but the reader and the line counter: no worker is started, no Tuple
\* is made, no Record is opened and the Cfg is as before.
C12_BlankLine ==
    [][(pc = "read" /\ input' # input /\ phase' = phase
            /\ Blank(TrimComment(ReadString(input)))) =>
          /\ c' = c
          /\ pc' = "read"
          /\ worker' = worker
          /\ tuple' = tuple
          /\ input' = AfterLine(input)
          /\ ln' = ln + 1]_vars

\* A record, then a comment after leading whitespace: one Record with one Tuple.
C12_Witness ==
    /\ phase = 1
    /\ Succeeded
    /\ text = <<"a", "\n", " ", "#", "\n">>
    /\ ln = 3
    /\ Len(ret.c.Records) = 1
    /\ Len(ret.c.Records[1].Tuples) = 1

\* The text splits on whitespace into more than one token.
MultiToken(s) ==
    \E i, j, k \in 1..Len(s) :
        i < j /\ j < k /\ ~IsSpace(s[i]) /\ IsSpace(s[j]) /\ ~IsSpace(s[k])

\* out is s with every occurrence of the rune r doubled.
EachDoubled(s, out, r) ==
    /\ Len(out) = Len(s) + Cardinality({i \in 1..Len(s) : s[i] = r})
    /\ \A i \in 1..Len(s) :
          LET p == i + Cardinality({j \in 1..(i - 1) : s[j] = r}) IN
          /\ out[p] = s[i]
          /\ s[i] = r => out[p + 1] = r

\* out renders the field s under the quoting policy with quote rune r.
FollowsPolicy(s, out, r) ==
    IF MultiToken(s)
    THEN /\ Len(out) >= 2
         /\ out[1] = r
         /\ out[Len(out)] = r
         /\ EachDoubled(s, SubSeq(out, 2, Len(out) - 1), r)
    ELSE out = s

FieldsOf(cf) == {a.Name : a \in AttributesOf(cf)} \cup {a.Value : a \in AttributesOf(cf)}

C14_Lookup ==
    /\ [](LET Key(x) == CASE result.op = "Cfg.Lookup" -> RecordPrimaryKey(x)
                          [] result.op = "Record.Lookup" -> TuplePrimaryKey(x)
                          [] result.op = "Tuple.Lookup" -> x.Name
              Match(x) == Key(x) = result.arg
              children == CASE result.op = "Cfg.Lookup" -> ret.c.Records
                            [] result.op = "Record.Lookup" -> ret.c.Records[result.i].Tuples
                            [] result.op = "Tuple.Lookup" ->
                                  ret.c.Records[result.i].Tuples[result.j].Attributes
          IN result.op \in {"Cfg.Lookup", "Record.Lookup", "Tuple.Lookup"} =>
                /\ result.val.out = SelectSeq(children, Match)
                /\ result.val.ok = (\E i \in 1..Len(children) : Match(children[i])))
    /\ [][(result' # result /\ phase' = phase) => UNCHANGED load]_vars

\* Two Records with the same key, both returned.
C14_Witness ==
    /\ result.op = "Cfg.Lookup"
    /\ Len(ret.c.Records) = 2
    /\ result.arg = RecordPrimaryKey(ret.c.Records[1])
    /\ result.val.out = ret.c.Records
    /\ result.val.ok

\* The attributes of a sequence of tuples, in source order.
RECURSIVE AttributesInOrder(_)
AttributesInOrder(ts) ==
    IF ts = <<>> THEN <<>> ELSE Head(ts).Attributes \o AttributesInOrder(Tail(ts))

NamesIn(as) == {as[i].Name : i \in 1..Len(as)}

\* The value of the first attribute named nm.
FirstValue(as, nm) ==
    as[CHOOSE i \in 1..Len(as) : as[i].Name = nm /\ \A j \in 1..(i - 1) : as[j].Name # nm].Value

\* The non-empty values given to nm, in order.
ValuesOf(as, nm) ==
    LET Given(a) == a.Name = nm /\ a.Value # <<>>
        sel == SelectSeq(as, Given)
    IN [i \in 1..Len(sel) |-> sel[i].Value]

\* C15: Record.FlatMap returns a map whose keys are the attribute names of the
\* Record, each with the value of the first occurrence of that name in source
\* order (the empty string when that occurrence has no value).
C15_RecordFlatMap ==
    result.op = "Record.FlatMap" =>
        LET as == AttributesInOrder(ret.c.Records[result.i].Tuples) IN
        /\ DOMAIN result.val = NamesIn(as)
        /\ \A nm \in NamesIn(as) : result.val[nm] = FirstValue(as, nm)

\* C16: Cfg.FlatMap on a loaded Cfg does not fail and maps every attribute name
\* of the Cfg to the value of its first occurrence, valueless names included.
C16_CfgFlatMap ==
    result.op = "Cfg.FlatMap" =>
        LET as == AttributesInOrder(AllTuplesFrom(ret.c.Records, 1)) IN
        /\ ~result.val.panic
        /\ DOMAIN result.val.out = NamesIn(as)
        /\ \A nm \in NamesIn(as) : result.val.out[nm] = FirstValue(as, nm)

\* C17: Tuple.BuildMap maps every name of the Tuple to the list of all
\* non-empty values given to it, in order (the empty list when there is none).
C17_TupleBuildMap ==
    result.op = "Tuple.BuildMap" =>
        LET as == ret.c.Records[result.i].Tuples[result.j].Attributes IN
        /\ DOMAIN result.val = NamesIn(as)
        /\ \A nm \in NamesIn(as) : result.val[nm] = ValuesOf(as, nm)

\* C18: when the content of a line ends in state Value, at its newline or at
\* the place a comment cut it, the buffered word is committed as the value of
\* the pending name: the attribute n=word is sent to the Tuple.
C18_EndOfLineValue ==
    [][(/\ pc = "scan"
        /\ state = value
        /\ \/ lr = <<"\n">> /\ lr' # lr
           \/ lr = <<>> /\ pc' # pc)
       => sent' = Append(sent, Attribute(n, word))]_vars

\* The quote character of the other kind than the open quote, if it is next.
OtherQuoteNext ==
    /\ pc = "scan"
    /\ lr # <<>>
    /\ \/ state = squotebegin /\ Head(lr) = DQ
       \/ state = dquotebegin /\ Head(lr) = SQ

\* C19 as stated: inside an open quote every occurrence of the other kind's
\* quote character is appended to the word, one character per occurrence,
\* and the tokenizer state stays, for single and consecutive occurrences alike.
C19_OnePerOccurrence ==
    [][(OtherQuoteNext /\ lr' # lr)
       => /\ word' = Append(word, Head(lr))
          /\ lr' = Tail(lr)
          /\ state' = state
          /\ pc' = pc]_vars

\* C19, amended: inside an open quote the other kind's quote character never
\* changes the tokenizer state and commits nothing; an occurrence followed by
\* a different rune appends one character, two consecutive occurrences are
\* read together and append one character for the pair, and an occurrence
\* that is the last rune of the comment-stripped line makes Load return the
\* "unclosed ... at EOF" error of that character.
C19_OtherQuote ==
    [][(OtherQuoteNext /\ lr' # lr)
       => /\ state' = state
          /\ n' = n
          /\ sent' = sent
          /\ IF Tail(lr) = <<>>
             THEN /\ pc' = "returned"
                  /\ ret'.err = IF Head(lr) = DQ
                                THEN "unclosed double quote (\") at EOF"
                                ELSE "unclosed single quote (') at EOF"
                  /\ word' = word
             ELSE /\ pc' = pc
                  /\ word' = Append(word, Head(lr))
                  /\ lr' = IF Head(Tail(lr)) = Head(lr) THEN Tail(Tail(lr)) ELSE Tail(lr)]_vars

\* Two consecutive double quotes inside an open single quote have been read and
\* have left one double quote in the word.
C19_Witness ==
    /\ pc = "scan"
    /\ state = squotebegin
    /\ Len(line) >= 4
    /\ line[1] = SQ
    /\ line[2] = DQ
    /\ line[3] = DQ
    /\ rn = 4
    /\ lr = SubSeq(line, 4, Len(line))
    /\ word = <<DQ>>

\* C20: whitespace directly after an unquoted = commits the pending name
\* without value and the next word starts a new attribute, and a closed quoted
\* name commits without value unless the rune after it is =.
C20_Valueless ==
    [][(pc = "scan" /\ lr # <<>> /\ lr' # lr)
       => /\ (state = equals /\ IsSpace(Head(lr)))
                => /\ sent' = Append(sent, Attribute(n, <<>>))
                   /\ state' = name
                   /\ n' = <<>>
                   /\ word' = <<>>
          /\ (state \in {squoteend, dquoteend} /\ n # <<>> /\ word = <<>> /\ Head(lr) # "=")
                => sent' = Append(sent, Attribute(n, <<>>))]_vars

\* The attributes that are in the Cfg being built, in the returned Cfg, in the
\* worker's tuple or on their way to it.
AttributesAnywhere ==
    AttributesOf(c) \cup AttributesOf(ret.c) \cup Range(tuple) \cup Range(sent) \cup Range(commit)

\* C21: each line is cut at its first # before it is tokenized, whether or not
\* that # lies inside a quoted field, so no name or value of any attribute
\* that Load makes or returns contains #.
C21_NoHash ==
    /\ [](/\ "#" \notin Range(line)
          /\ \A a \in AttributesAnywhere : "#" \notin Range(a.Name) \cup Range(a.Value))
    /\ [][(pc = "read" /\ pc' = "scan") =>
             LET raw == ReadString(input) IN
             /\ Len(line') <= Len(raw)
             /\ line' = SubSeq(raw, 1, Len(line'))
             /\ Len(line') < Len(raw) => raw[Len(line') + 1] = "#"
             /\ lr' = line']_vars

\* A first Load has succeeded on a one-line text whose line holds a quoted
\* field and then a comment, and the returned Cfg has the line's attribute.
C21_Witness ==
    /\ Succeeded
    /\ phase = 1
    /\ text # <<>>
    /\ text[Len(text)] = "\n"
    /\ \E i \in 2..Len(text) :
          /\ text[i] = "#"
          /\ \A j \in 1..(i-1) : text[j] # "\n"
          /\ i >= 4
          /\ text[1] \in {SQ, DQ}
          /\ text[2] = "a"
          /\ text[3] = text[1]
    /\ Len(ret.c.Records) = 1
    /\ AttributesOf(ret.c) # {}

\* C22: whenever Load has returned, with or without error, no worker goroutine
\* it started is still there: each has handed over its tuple and ended.
C22_WorkerTerminated ==
    Returned => worker \in {"none", "exited"}

\* The quote that is open at the end of line l, "none" if there is none:
\* a doubled quote character is a literal, a quote character opens a quote
\* when none is open, closes the open quote of its kind, and is data inside
\* the other kind.
RECURSIVE OpenAfter(_, _)
OpenAfter(l, open) ==
    IF l = <<>> THEN open
    ELSE IF Head(l) \notin {SQ, DQ} THEN OpenAfter(Tail(l), open)
    ELSE IF Len(l) >= 2 /\ l[2] = Head(l) THEN OpenAfter(SubSeq(l, 3, Len(l)), open)
    ELSE IF open = "none" THEN OpenAfter(Tail(l), Head(l))
    ELSE IF open = Head(l) THEN OpenAfter(Tail(l), "none")
    ELSE OpenAfter(Tail(l), open)

\* C23: Load returns an unclosed or unterminated quote error only for a line
\* that ends with a quote still open; a line whose quotes are all closed gives
\* no quote error, whatever follows the closing quote.
C23_QuoteErrorOnlyIfOpen ==
    (Returned /\ ret.err \in SingleErrors \cup DoubleErrors) =>
        OpenAfter(line, "none") # "none"

\* The number of lines of text t that are not blank once the comment is
\* removed, a last line without newline included.
RECURSIVE ContentLines(_)
ContentLines(t) ==
    IF t = <<>> THEN 0
    ELSE LET l == IF HasLine(t) THEN ReadString(t) ELSE t
             rest == IF HasLine(t) THEN AfterLine(t) ELSE <<>>
         IN (IF Blank(TrimComment(l)) THEN 0 ELSE 1) + ContentLines(rest)

\* C24: a successful Load returns exactly one Tuple for every line of the text
\* that is not blank after comment stripping, a last line without newline
\* included.
C24_TuplePerLine ==
    Succeeded => Len(AllTuplesFrom(ret.c.Records, 1)) = ContentLines(text)

\* C25: after a successful Load, c.Map[k] is the map of the first Record with
\* primary key k, and in it c.Map[k][t] is the attribute map of the first
\* Tuple of that Record with primary key t.
C25_MapFirstMatch ==
    Succeeded =>
        \A k \in {RecordPrimaryKey(r) : r \in Range(ret.c.Records)} :
            LET first == CfgLookup(ret.c, k).out[1] IN
            /\ k \in DOMAIN ret.c.Map
            /\ \A t \in {TuplePrimaryKey(x) : x \in Range(first.Tuples)} :
                  /\ t \in DOMAIN ret.c.Map[k]
                  /\ ret.c.Map[k][t] = TupleBuildMap(RecordLookup(first, t).out[1])

====
